---- MODULE Spec2Model ----
(***************************************************************************)
(* Help/usage text synthesis of argh_derive (src/argh_derive/src/help.rs). *)
(*                                                                         *)
(* A string is a sequence of chunks.  Text that comes from the schema      *)
(* (names, descriptions, example/note literals, error-code text) is a      *)
(* sequence of one-character chunks; a string constant of help.rs that     *)
(* holds no brace is written as one multi-character chunk, so that a       *)
(* heading or a separator pushed by the code can be told from schema text. *)
(* Option<T> is a sequence of length 0 (None) or 1 (Some).                 *)
(***************************************************************************)
EXTENDS Integers, Sequences, FiniteSets, TLC

VARIABLES
    ty_attrs,          \* TypeAttrs: description, examples, notes, error_codes
    fields,            \* the StructFields, in declaration order
    subcommand,        \* Option<StructField>: the sub-command field
    COMMANDS,          \* <subcommand_ty as argh::SubCommands>::COMMANDS
    cmd_name,          \* the command path handed to the generated code
    errors,            \* the Errors collectors a caller can pass, by identity
    calls,             \* log of the render calls: which collector, what was recorded
    help_tokens,       \* Option: what help() returned
    help_json_tokens,  \* Option: what help_json() returned
    help_string,       \* Option: the text help the generated code produced
    json_help_string   \* Option: the JSON help the generated code produced

vars == <<ty_attrs, fields, subcommand, COMMANDS, cmd_name, errors, calls,
          help_tokens, help_json_tokens, help_string, json_help_string>>

schema == <<ty_attrs, fields, subcommand, COMMANDS, cmd_name>>

-----------------------------------------------------------------------------
(* Option<T> *)

None == << >>

Some(x) == <<x>>

is_some(o) == Len(o) = 1

is_none(o) == Len(o) = 0

-----------------------------------------------------------------------------
(* String helpers (Rust std operations used by help.rs) *)

RECURSIVE Concat(_)
\* String::push_str over a list of strings, in order, no separator.
Concat(ss) == IF ss = << >> THEN << >> ELSE Head(ss) \o Concat(Tail(ss))

RECURSIVE join(_, _)
\* [String]::join(sep)
join(ss, sep) ==
    IF ss = << >> THEN << >>
    ELSE IF Len(ss) = 1 THEN ss[1]
    ELSE ss[1] \o sep \o join(Tail(ss), sep)

\* s[i..] starts with p
StartsWithAt(s, i, p) ==
    /\ i + Len(p) - 1 <= Len(s)
    /\ \A k \in 1..Len(p) : s[i + k - 1] = p[k]

\* str::contains
contains(s, p) == \E i \in 1..(Len(s) + 1) : StartsWithAt(s, i, p)

IsWhitespace(c) == c \in {" ", "\n", "\t"}

\* str::trim: leading and trailing whitespace removed
trim(s) ==
    LET keep == {i \in 1..Len(s) : ~IsWhitespace(s[i])}
    IN  IF keep = {} THEN << >>
        ELSE LET lo == CHOOSE i \in keep : \A j \in keep : i <= j
                 hi == CHOOSE i \in keep : \A j \in keep : j <= i
             IN  SubSeq(s, lo, hi)

RECURSIVE trim_start_matches(_, _)
\* str::trim_start_matches(p): every leading repetition of p removed
trim_start_matches(s, p) ==
    IF Len(p) > 0 /\ StartsWithAt(s, 1, p)
    THEN trim_start_matches(SubSeq(s, Len(p) + 1, Len(s)), p)
    ELSE s

RECURSIVE replace(_, _, _)
\* str::replace(from, to) for a one-character pattern: every occurrence, left to right
replace(s, from, to) ==
    IF \A i \in 1..Len(s) : s[i] # from THEN s
    ELSE LET i == CHOOSE i \in 1..Len(s) :
                      s[i] = from /\ \A j \in 1..(i - 1) : s[j] # from
         IN  SubSeq(s, 1, i - 1) \o to \o replace(SubSeq(s, i + 1, Len(s)), from, to)

RECURSIVE split_on(_, _)
\* str::split(pattern): the pieces between occurrences of a non-empty pattern
\* (always at least one piece)
split_on(s, p) ==
    LET at == {i \in 1..Len(s) : StartsWithAt(s, i, p)}
    IN  IF at = {} THEN <<s>>
        ELSE LET i == CHOOSE i \in at : \A j \in at : i <= j
             IN  <<SubSeq(s, 1, i - 1)>> \o split_on(SubSeq(s, i + Len(p), Len(s)), p)

\* str::split(c) for a one-character pattern
split(s, c) == split_on(s, <<c>>)

-----------------------------------------------------------------------------
(* Constants of help.rs *)

SECTION_SEPARATOR == <<"\n\n">>

HELP_FLAG == <<"--help">>

HELP_DESCRIPTION == <<"display usage information">>

HELP_JSON_FLAG == <<"--help-json">>

HELP_JSON_DESCRIPTION == <<"display usage information encoded in JSON">>

INDENT == <<"  ">>

\* the interpolation token {command_name}, character by character
command_name_token ==
    <<"{", "c", "o", "m", "m", "a", "n", "d", "_", "n", "a", "m", "e", "}">>

\* the interpolation token {subcommands}
subcommands_token ==
    <<"{", "s", "u", "b", "c", "o", "m", "m", "a", "n", "d", "s", "}">>

-----------------------------------------------------------------------------
(* Field descriptor *)

\* Optionality::is_required
is_required(optionality) == optionality = "Required"

\* StructField::arg_name: the explicit arg_name, else the field's name
arg_name(field) ==
    IF is_some(field.attrs.arg_name) THEN field.attrs.arg_name[1] ELSE field.name

-----------------------------------------------------------------------------
(* Usage line *)

\* positional_usage that brackets an Optional field only, not a Repeating one
positional_usage_optional_only(out, field) ==
    LET o1 == IF field.optionality = "Optional" THEN out \o <<"[">> ELSE out
        o2 == o1 \o <<"<">>
        o3 == o2 \o arg_name(field)
        o4 == IF field.optionality = "Repeating" THEN o3 \o <<"...">> ELSE o3
        o5 == o4 \o <<">">>
    IN  IF field.optionality = "Optional" THEN o5 \o <<"]">> ELSE o5

\* Add positional arguments like `[<foo>...]` to a help format string.
positional_usage(out, field) ==
    LET o1 == IF ~is_required(field.optionality) THEN out \o <<"[">> ELSE out
        o2 == o1 \o <<"<">>
        o3 == o2 \o arg_name(field)
        o4 == IF field.optionality = "Repeating" THEN o3 \o <<"...">> ELSE o3
        o5 == o4 \o <<">">>
    IN  IF ~is_required(field.optionality) THEN o5 \o <<"]">> ELSE o5

\* Add options like `[-f <foo>]` to a help format string.
option_usage(out, field) ==
    LET o1 == IF ~is_required(field.optionality) THEN out \o <<"[">> ELSE out
        long_name == field.long_name[1]
        o2 == IF is_some(field.attrs.short)
              THEN o1 \o <<"-">> \o <<field.attrs.short[1]>>
              ELSE o1 \o long_name
        o3 == IF field.kind = "Option"
              THEN LET a1 == o2 \o <<" <">>
                       a2 == IF is_some(field.attrs.arg_name)
                             THEN a1 \o field.attrs.arg_name[1]
                             ELSE a1 \o trim_start_matches(long_name, <<"-", "-">>)
                       a3 == IF field.optionality = "Repeating"
                             THEN a2 \o <<"...">> ELSE a2
                   IN  a3 \o <<">">>
              ELSE o2
    IN  IF ~is_required(field.optionality) THEN o3 \o <<"]">> ELSE o3

\* fields.iter().filter(|f| f.kind == FieldKind::Positional)
positional_fields(fs) == SelectSeq(fs, LAMBDA f : f.kind = "Positional")

\* fields.iter().filter(|f| f.long_name.is_some())
option_fields(fs) == SelectSeq(fs, LAMBDA f : is_some(f.long_name))

RECURSIVE usage_positionals(_, _)
\* for arg in positional { out.push(' '); positional_usage(out, arg); }
usage_positionals(out, ps) ==
    IF ps = << >> THEN out
    ELSE usage_positionals(positional_usage(out \o <<" ">>, Head(ps)), Tail(ps))

RECURSIVE usage_options(_, _)
\* for option in options { out.push(' '); option_usage(out, option); }
usage_options(out, os) ==
    IF os = << >> THEN out
    ELSE usage_options(option_usage(out \o <<" ">>, Head(os)), Tail(os))

\* the sub-command fragment of the usage line
usage_subcommand(out, sub) ==
    IF is_some(sub)
    THEN LET o1 == out \o <<" ">>
             o2 == IF ~is_required(sub[1].optionality) THEN o1 \o <<"[">> ELSE o1
             o3 == o2 \o <<"<command>">>
             o4 == IF ~is_required(sub[1].optionality) THEN o3 \o <<"]">> ELSE o3
         IN  o4 \o <<" [<args>]">>
    ELSE out

\* build_usage_command_line with the two loops in the other order
build_usage_command_line_options_first(out, fs, sub) ==
    usage_subcommand(
        usage_positionals(usage_options(out, option_fields(fs)), positional_fields(fs)),
        sub)

\* Builds the usage description command line and appends it to "out".
build_usage_command_line(out, fs, sub) ==
    usage_subcommand(
        usage_options(usage_positionals(out, positional_fields(fs)), option_fields(fs)),
        sub)

-----------------------------------------------------------------------------
(* Description validation *)

\* the span of the derive invocation (Span::call_site())
call_site == <<"call_site">>

\* Errors::err_span: one diagnostic appended to the collector
err_span(errs, span, kind) == Append(errs, [span |-> span, kind |-> kind])

\* The trimmed description, or "" and a diagnostic when there is none.
\* Returns the string and the collector as it is after the call.
require_description(errs, span, desc, kind) ==
    IF is_some(desc)
    THEN [s |-> trim(desc[1]), errors |-> errs]
    ELSE [s |-> << >>, errors |-> err_span(errs, span, kind)]

-----------------------------------------------------------------------------
(* Two-column entries (argh_shared::write_description, argh::print_subcommands) *)

\* the gap between the name column and the description column
COLUMN == <<"<column>">>

\* one indented two-column entry appended to out
write_description(out, name, description) ==
    out \o <<"\n">> \o INDENT \o name \o COLUMN \o description

RECURSIVE print_subcommands_into(_, _)
print_subcommands_into(out, commands) ==
    IF commands = << >> THEN out
    ELSE print_subcommands_into(
             write_description(out, Head(commands).name, Head(commands).description),
             Tail(commands))

\* the entries of the sub-command type's COMMANDS, formatted like options
print_subcommands(commands) == print_subcommands_into(<< >>, commands)

-----------------------------------------------------------------------------
(* Text help *)

positional_description_format(out, name, description) ==
    write_description(out, name, description)

\* Describes a positional argument: its name and its trimmed description,
\* or "" when it has none (no diagnostic).
positional_description(out, field) ==
    LET description == IF is_some(field.attrs.description)
                       THEN trim(field.attrs.description[1]) ELSE << >>
    IN  positional_description_format(out, arg_name(field), description)

option_description_format(out, short, long_with_leading_dashes, description) ==
    LET name == (IF is_some(short) THEN <<"-">> \o <<short[1]>> \o <<", ">> ELSE << >>)
                    \o long_with_leading_dashes
    IN  write_description(out, name, description)

\* Describes an option; st is [out, errors].
option_description(st, field) ==
    LET d == require_description(st.errors, field.name, field.attrs.description, "field")
    IN  [out |-> option_description_format(st.out, field.attrs.short,
                                           field.long_name[1], d.s),
         errors |-> d.errors]

RECURSIVE positional_descriptions(_, _)
\* for arg in positional { positional_description(&mut format_lit, arg); }
positional_descriptions(out, ps) ==
    IF ps = << >> THEN out
    ELSE positional_descriptions(positional_description(out, Head(ps)), Tail(ps))

RECURSIVE option_descriptions(_, _)
\* for option in options { option_description(errors, &mut format_lit, option); }
option_descriptions(st, os) ==
    IF os = << >> THEN st
    ELSE option_descriptions(option_description(st, Head(os)), Tail(os))

RECURSIVE lits_lines(_, _)
\* for line in value.split('\n') { out.push('\n'); out.push_str(INDENT); out.push_str(line); }
lits_lines(out, lines) ==
    IF lines = << >> THEN out
    ELSE lits_lines(out \o <<"\n">> \o INDENT \o Head(lines), Tail(lines))

RECURSIVE lits_values(_, _)
lits_values(out, lits) ==
    IF lits = << >> THEN out
    ELSE lits_values(lits_lines(out, split(Head(lits), "\n")), Tail(lits))

\* lits_section without the check that there are literals
lits_section_always(out, heading, lits) ==
    lits_values(out \o SECTION_SEPARATOR \o heading, lits)

\* A section composed of exactly just the literals provided to the program.
lits_section(out, heading, lits) ==
    IF lits # << >>
    THEN lits_values(out \o SECTION_SEPARATOR \o heading, lits)
    ELSE out

RECURSIVE error_code_lines(_, _)
\* one indented "<code> <text>" line per error code
error_code_lines(out, codes) ==
    IF codes = << >> THEN out
    ELSE error_code_lines(
             out \o <<"\n">> \o INDENT \o Head(codes).code \o <<" ">> \o Head(codes).text,
             Tail(codes))

error_codes_section(out, codes) ==
    IF codes # << >>
    THEN error_code_lines(out \o SECTION_SEPARATOR \o <<"Error codes:">>, codes)
    ELSE out

\* the Positional Arguments section of the text help
help_positional_section(out, ps) ==
    IF ps # << >>
    THEN positional_descriptions(out \o SECTION_SEPARATOR \o <<"Positional Arguments:">>, ps)
    ELSE out

\* the Options section of the text help; st is [out, errors]
help_options_section(st, os) ==
    LET s1 == option_descriptions(
                  [out |-> st.out \o SECTION_SEPARATOR \o <<"Options:">>,
                   errors |-> st.errors], os)
        o2 == option_description_format(s1.out, None, HELP_FLAG, HELP_DESCRIPTION)
        o3 == option_description_format(o2, None, HELP_JSON_FLAG, HELP_JSON_DESCRIPTION)
    IN  [out |-> o3, errors |-> s1.errors]

\* the Commands section of the text help
help_commands_section(out, sub) ==
    IF is_some(sub)
    THEN out \o SECTION_SEPARATOR \o <<"Commands:">> \o subcommands_token
    ELSE out

\* help(): the format string of the text help, whether the generated code
\* computes `subcommands`, and the collector after the call.
help(errs, ta, fs, sub) ==
    LET f1 == build_usage_command_line(<<"Usage: ">> \o command_name_token, fs, sub)
        f2 == f1 \o SECTION_SEPARATOR
        d  == require_description(errs, call_site, ta.description, "type")
        f3 == f2 \o d.s
        f4 == help_positional_section(f3, positional_fields(fs))
        s5 == help_options_section([out |-> f4, errors |-> d.errors], option_fields(fs))
        f6 == help_commands_section(s5.out, sub)
        f7 == lits_section(f6, <<"Examples:">>, ta.examples)
        f8 == lits_section(f7, <<"Notes:">>, ta.notes)
        f9 == error_codes_section(f8, ta.error_codes)
    IN  [format_lit |-> f9 \o <<"\n">>,
         subcommand |-> is_some(sub),
         errors |-> s5.errors]

-----------------------------------------------------------------------------
(* format!: `{name}` replaced by the named argument, `{{` and `}}` by one *)
(* brace; anything else in braces is an error.  args is a set of          *)
(* [name, value]; the result is [ok, out].                                *)

format_error == [ok |-> FALSE, out |-> << >>]

format_cons(v, r) == IF r.ok THEN [ok |-> TRUE, out |-> v \o r.out] ELSE format_error

RECURSIVE format_from(_, _, _)
\* s from position i on: the text up to the next brace is copied, the brace handled
format_from(s, i, args) ==
    LET braces == {b \in i..Len(s) : s[b] \in {"{", "}"}}
    IN  IF braces = {} THEN [ok |-> TRUE, out |-> SubSeq(s, i, Len(s))]
        ELSE LET b == CHOOSE b \in braces : \A k \in braces : b <= k
                 text == SubSeq(s, i, b - 1)
             IN  IF b < Len(s) /\ s[b + 1] = s[b]
                 THEN format_cons(text \o <<s[b]>>, format_from(s, b + 2, args))
                 ELSE IF s[b] = "}" THEN format_error
                 ELSE LET closes == {j \in (b + 1)..Len(s) : s[j] = "}"}
                      IN  IF closes = {} THEN format_error
                          ELSE LET j    == CHOOSE j \in closes : \A k \in closes : j <= k
                                   hits == {a \in args : a.name = SubSeq(s, b + 1, j - 1)}
                               IN  IF hits = {} THEN format_error
                                   ELSE format_cons(
                                            text \o (CHOOSE a \in hits : TRUE).value,
                                            format_from(s, j + 1, args))

format(s, args) == format_from(s, 1, args)

\* command_name = cmd_name_str_array.join(" ")
command_name_arg(names) ==
    [name |-> SubSeq(command_name_token, 2, Len(command_name_token) - 1),
     value |-> join(names, <<" ">>)]

\* subcommands = subcommands
subcommands_arg(value) ==
    [name |-> SubSeq(subcommands_token, 2, Len(subcommands_token) - 1),
     value |-> value]

\* the code generated by help(), evaluated: the text help document
help_eval(tokens, names, commands) ==
    format(tokens.format_lit,
           {command_name_arg(names)} \cup
           (IF tokens.subcommand
            THEN {subcommands_arg(print_subcommands(commands))} ELSE {}))

-----------------------------------------------------------------------------
(* JSON help *)

\* Escape characters in strings to be JSON compatible.
escape_json(value) ==
    replace(replace(value, "\n", <<"\\", "n">>), "\"", <<"\\", "\"">>)

\* one element of the options array
option_element_json(opt) ==
    <<"{\"short\": \"">> \o opt.short \o <<"\", \"long\": \"">> \o opt.long
        \o <<"\", \"description\": \"">> \o escape_json(opt.description) \o <<"\"}">>

RECURSIVE option_elements_json_into(_, _)
option_elements_json_into(retval, options) ==
    IF options = << >> THEN retval
    ELSE option_elements_json_into(
             (IF retval # << >> THEN retval \o <<",\n    ">> ELSE retval)
                 \o option_element_json(Head(options)),
             Tail(options))

\* HelpJSON::option_elements_json
option_elements_json(options) == option_elements_json_into(<< >>, options)

\* one {name, description} element
help_element_json(pos) ==
    <<"{\"name\": \"">> \o pos.name
        \o <<"\", \"description\": \"">> \o escape_json(pos.description) \o <<"\"}">>

RECURSIVE help_elements_json_into(_, _)
help_elements_json_into(retval, elements) ==
    IF elements = << >> THEN retval
    ELSE help_elements_json_into(
             (IF retval # << >> THEN retval \o <<",\n    ">> ELSE retval)
                 \o help_element_json(Head(elements)),
             Tail(elements))

\* HelpJSON::help_elements_json
help_elements_json(elements) == help_elements_json_into(<< >>, elements)

\* Add positional args to the help object.
json_positional_args(ps) ==
    [i \in 1..Len(ps) |->
        [name |-> arg_name(ps[i]),
         description |-> IF is_some(ps[i].attrs.description)
                         THEN trim(ps[i].attrs.description[1]) ELSE << >>]]

RECURSIVE json_options(_, _)
\* Add options to the help object; st is [options, errors].
json_options(st, os) ==
    IF os = << >> THEN st
    ELSE LET option == Head(os)
             d == require_description(st.errors, option.name,
                                      option.attrs.description, "field")
         IN  json_options(
                 [options |-> Append(st.options,
                                  [short |-> IF is_some(option.attrs.short)
                                             THEN <<option.attrs.short[1]>> ELSE << >>,
                                   long |-> option.long_name[1],
                                   description |-> d.s]),
                  errors |-> d.errors],
                 Tail(os))

\* json_help_options with the synthetic entries put first
json_help_options_first(options) ==
    <<[short |-> << >>, long |-> HELP_FLAG, description |-> HELP_DESCRIPTION],
      [short |-> << >>, long |-> HELP_JSON_FLAG, description |-> HELP_JSON_DESCRIPTION]>>
    \o options

\* Also include "help" and "help-json"
json_help_options(options) ==
    options \o
    <<[short |-> << >>, long |-> HELP_FLAG, description |-> HELP_DESCRIPTION],
      [short |-> << >>, long |-> HELP_JSON_FLAG, description |-> HELP_JSON_DESCRIPTION]>>

\* help_obj.error_codes
json_error_codes(codes) ==
    [i \in 1..Len(codes) |->
        [name |-> codes[i].code, description |-> escape_json(codes[i].text)]]

\* the examples (notes) string of the help object: the literals pushed in order
json_lits(lits) == Concat(lits)

\* json_lits_tokens that always interpolates
json_lits_tokens_always(pattern) ==
    [pattern |-> pattern, interpolate |-> TRUE]

\* check if we need to interpolate the string.
json_lits_tokens(pattern) ==
    [pattern |-> pattern, interpolate |-> contains(pattern, command_name_token)]

\* help_json(): what the generated code embeds, and the collector after the call.
help_json(errs, ta, fs, sub) ==
    LET usage_format_pattern == build_usage_command_line(command_name_token, fs, sub)
        positional_args == json_positional_args(positional_fields(fs))
        o  == json_options([options |-> << >>, errors |-> errs], option_fields(fs))
        options == json_help_options(o.options)
        d  == require_description(o.errors, call_site, ta.description, "type")
        examples == json_lits(ta.examples)
        notes == json_lits(ta.notes)
        error_codes == json_error_codes(ta.error_codes)
    IN  [subcommand |-> is_some(sub),
         usage_format_pattern |-> usage_format_pattern,
         help_description |-> escape_json(d.s),
         help_options_json |-> option_elements_json(options),
         help_positional_json |-> help_elements_json(positional_args),
         help_error_codes_json |-> help_elements_json(error_codes),
         help_notes |-> json_lits_tokens(escape_json(notes)),
         help_examples |-> json_lits_tokens(escape_json(examples)),
         errors |-> d.errors]

RECURSIVE subcommands_json_into(_, _)
\* for cmd in COMMANDS { ... subcommands.push_str(&format!(...cmd.name, cmd.description)) }
subcommands_json_into(subcommands, commands) ==
    IF commands = << >> THEN subcommands
    ELSE subcommands_json_into(
             (IF subcommands # << >> THEN subcommands \o <<",\n    ">> ELSE subcommands)
                 \o <<"{\"name\": \"">> \o Head(commands).name
                 \o <<"\", \"description\": \"">> \o Head(commands).description
                 \o <<"\"}">>,
             Tail(commands))

\* subcommands_json that leaves the first variant out
subcommands_json_skip_first(has_subcommand, commands) ==
    IF has_subcommand /\ commands # << >>
    THEN subcommands_json_into(<< >>, Tail(commands)) ELSE << >>

\* subcommand_calculation of help_json
subcommands_json(has_subcommand, commands) ==
    IF has_subcommand THEN subcommands_json_into(<< >>, commands) ELSE << >>

\* #help_examples / #help_notes: format! when interpolating, else push as is
json_lits_eval(tokens, names) ==
    IF tokens.interpolate
    THEN format(tokens.pattern, {command_name_arg(names)})
    ELSE [ok |-> TRUE, out |-> tokens.pattern]

\* the code generated by help_json(), evaluated: the JSON help document
help_json_eval(tokens, names, commands) ==
    LET subcommands == subcommands_json(tokens.subcommand, commands)
        usage_value == format(tokens.usage_format_pattern, {command_name_arg(names)})
        examples == json_lits_eval(tokens.help_examples, names)
        notes == json_lits_eval(tokens.help_notes, names)
    IN  IF usage_value.ok /\ examples.ok /\ notes.ok
        THEN [ok |-> TRUE,
              out |-> <<"{\n">>
                  \o <<"\"usage\": \"">> \o usage_value.out \o <<"\",\n">>
                  \o <<"\"description\": \"">> \o tokens.help_description \o <<"\",\n">>
                  \o <<"\"options\": [">> \o tokens.help_options_json \o <<"],\n">>
                  \o <<"\"positional\": [">> \o tokens.help_positional_json \o <<"],\n">>
                  \o <<"\"examples\": \"">> \o examples.out \o <<"\",\n">>
                  \o <<"\"notes\": \"">> \o notes.out \o <<"\",\n">>
                  \o <<"\"error_codes\": [">> \o tokens.help_error_codes_json \o <<"],\n">>
                  \o <<"\"subcommands\": [">> \o subcommands \o <<"]\n">>
                  \o <<"}\n">>]
        ELSE format_error

-----------------------------------------------------------------------------
(* The operations *)

\* the Errors collectors a caller of help / help_json may pass
Collectors == {"errors_1", "errors_2"}

\* the diagnostics a call appended to the collector it was given
recorded(before, after) == SubSeq(after, Len(before) + 1, Len(after))

\* help(errors, ...) is called with collector c
HelpCall(c) ==
    /\ is_none(help_tokens)
    /\ LET r == help(errors[c], ty_attrs, fields, subcommand)
       IN  /\ help_tokens' = Some([format_lit |-> r.format_lit, subcommand |-> r.subcommand])
           /\ errors' = [errors EXCEPT ![c] = r.errors]
           /\ calls' = Append(calls, [render |-> "help", errors |-> c,
                                      recorded |-> recorded(errors[c], r.errors)])
    /\ UNCHANGED <<schema, help_json_tokens, help_string, json_help_string>>

\* help_json(errors, ...) is called with collector c
HelpJsonCall(c) ==
    /\ is_none(help_json_tokens)
    /\ LET r == help_json(errors[c], ty_attrs, fields, subcommand)
       IN  /\ help_json_tokens' =
                  Some([subcommand |-> r.subcommand,
                        usage_format_pattern |-> r.usage_format_pattern,
                        help_description |-> r.help_description,
                        help_options_json |-> r.help_options_json,
                        help_positional_json |-> r.help_positional_json,
                        help_error_codes_json |-> r.help_error_codes_json,
                        help_notes |-> r.help_notes,
                        help_examples |-> r.help_examples])
           /\ errors' = [errors EXCEPT ![c] = r.errors]
           /\ calls' = Append(calls, [render |-> "help_json", errors |-> c,
                                      recorded |-> recorded(errors[c], r.errors)])
    /\ UNCHANGED <<schema, help_tokens, help_string, json_help_string>>

\* the program runs the code help() generated
HelpEval ==
    /\ is_some(help_tokens)
    /\ is_none(help_string)
    /\ help_string' = Some(help_eval(help_tokens[1], cmd_name, COMMANDS))
    /\ UNCHANGED <<schema, errors, calls, help_tokens, help_json_tokens, json_help_string>>

\* the program runs the code help_json() generated
HelpJsonEval ==
    /\ is_some(help_json_tokens)
    /\ is_none(json_help_string)
    /\ json_help_string' = Some(help_json_eval(help_json_tokens[1], cmd_name, COMMANDS))
    /\ UNCHANGED <<schema, errors, calls, help_tokens, help_json_tokens, help_string>>

Next ==
    \/ \E c \in DOMAIN errors : HelpCall(c)
    \/ \E c \in DOMAIN errors : HelpJsonCall(c)
    \/ HelpEval
    \/ HelpJsonEval

-----------------------------------------------------------------------------
(* The schemas the renders are checked on *)

MaxFields == 2

MaxLits == 2

MaxCodes == 1

MaxCommands == 2

\* the names of the fields, by position in the struct
FieldNames == <<"a", "b", "c", "d", "e", "f">>

Optionalities == {"Required", "Optional", "Repeating"}

\* a description that needs trimming and escaping
TrickyText == <<" ", "q", "\"", "\n", "z", " ">>

PlainText == <<"d">>

\* A StructField.  Only switches and options have a long name ("--" + name).
StructField(i, kind, optionality, short, arg, description) ==
    [kind |-> kind,
     optionality |-> optionality,
     name |-> <<FieldNames[i]>>,
     long_name |-> IF kind \in {"Switch", "Option"}
                   THEN Some(<<"-", "-", FieldNames[i]>>) ELSE None,
     attrs |-> [short |-> IF short THEN Some(FieldNames[i]) ELSE None,
                arg_name |-> IF arg THEN Some(<<"v", FieldNames[i]>>) ELSE None,
                description |-> description]]

\* the sub-command field
SubCommandField(optionality) ==
    [kind |-> "SubCommand", optionality |-> optionality, name |-> <<"s">>,
     long_name |-> None,
     attrs |-> [short |-> None, arg_name |-> None, description |-> None]]

\* the kind and optionality of a field
UsageShapes ==
    [kind : {"Positional", "Switch", "Option"}, optionality : Optionalities]

\* Every list of at most n fields of every kind and optionality; either the
\* options of a list have a short name and every placeholder its default
\* name, or the options have none and the positionals and value-taking
\* options have an explicit arg_name.
UsageFieldLists(n) ==
    UNION {{[i \in 1..k |->
                StructField(i, shs[i].kind, shs[i].optionality,
                            short /\ shs[i].kind # "Positional",
                            ~short /\ shs[i].kind # "Switch",
                            Some(PlainText))] :
            shs \in [1..k -> UsageShapes], short \in BOOLEAN} :
           k \in 0..n}

\* a description with doubled braces, as format! needs them written
BraceText == <<"{", "{", "x", "}", "}">>

\* Every list of at most n fields of every kind, each with a description
\* out of ds; the options of a list all have a short name or none has.
DescribedFieldLists(ds, n) ==
    UNION {{[i \in 1..k |->
                StructField(i, shs[i].kind, "Optional",
                            short /\ shs[i].kind # "Positional", FALSE,
                            shs[i].description)] :
            shs \in [1..k -> [kind : {"Positional", "Switch", "Option"},
                              description : ds]],
            short \in BOOLEAN} :
           k \in 0..n}

\* every list of at most n elements of S
ListsUpTo(S, n) == UNION {[1..k -> S] : k \in 0..n}

PlainTypeAttrs ==
    [description |-> Some(PlainText), examples |-> << >>, notes |-> << >>,
     error_codes |-> << >>]

\* nothing rendered yet, the collectors in cs empty
InitRenders(cs) ==
    /\ cmd_name = <<<<"p">>, <<"s">>>>
    /\ errors = [c \in cs |-> << >>]
    /\ calls = << >>
    /\ help_tokens = None
    /\ help_json_tokens = None
    /\ help_string = None
    /\ json_help_string = None

\* field lists of every shape the usage line distinguishes
InitUsage ==
    /\ fields \in UsageFieldLists(MaxFields)
    /\ subcommand \in {None, Some(SubCommandField("Required")),
                       Some(SubCommandField("Optional"))}
    /\ COMMANDS = IF is_some(subcommand)
                  THEN <<[name |-> <<"r">>, description |-> PlainText]>> ELSE << >>
    /\ ty_attrs = PlainTypeAttrs
    /\ InitRenders({"errors_1"})

\* descriptions present or absent on the type and on every field
InitDescriptions ==
    /\ fields \in DescribedFieldLists({None, Some(TrickyText)}, MaxFields)
    /\ subcommand = None
    /\ COMMANDS = << >>
    /\ ty_attrs \in {[PlainTypeAttrs EXCEPT !.description = d] :
                        d \in {None, Some(TrickyText)}}
    /\ InitRenders({"errors_1"})

\* every entity described, with text that needs trimming and escaping or
\* with doubled braces
InitListings ==
    /\ fields \in DescribedFieldLists({Some(TrickyText), Some(BraceText)}, MaxFields)
    /\ subcommand = None
    /\ COMMANDS = << >>
    /\ ty_attrs \in {[PlainTypeAttrs EXCEPT !.description = d] :
                        d \in {Some(PlainText), Some(TrickyText)}}
    /\ InitRenders({"errors_1"})

\* fields with and without a description, and two collectors a caller can
\* choose from
InitCollectors ==
    /\ fields \in {fs \in DescribedFieldLists({None, Some(PlainText)}, MaxFields) :
                      \A i \in 1..Len(fs) :
                          is_none(fs[i].attrs.short) /\ fs[i].kind # "Switch"}
    /\ subcommand = None
    /\ COMMANDS = << >>
    /\ ty_attrs \in {[PlainTypeAttrs EXCEPT !.description = d] :
                        d \in {None, Some(PlainText)}}
    /\ InitRenders(Collectors)

\* an example or note of two lines with a double quote
QuoteLit == <<"l", "\"", "\n", "m">>

\* an example or note that names the command
TokenLit == command_name_token \o <<" ", "r">>

\* an example or note with doubled braces and no token
BraceLit == <<"{", "{", "x", "}", "}">>

\* example and note literals of every kind
InitLits ==
    /\ fields = << >>
    /\ subcommand = None
    /\ COMMANDS = << >>
    /\ ty_attrs \in {[PlainTypeAttrs EXCEPT !.examples = ex, !.notes = no] :
                        ex \in ListsUpTo({QuoteLit, TokenLit, BraceLit}, MaxLits),
                        no \in ListsUpTo({QuoteLit, TokenLit, BraceLit}, MaxLits)}
    /\ InitRenders({"errors_1"})

\* the sub-command variants a sub-command type can report
CommandChoices ==
    {[name |-> <<"r">>, description |-> PlainText],
     [name |-> <<"b">>, description |-> <<"b", "\"", "i">>]}

\* the error codes a type can declare
ErrorCodeChoices ==
    {[code |-> <<"1">>, text |-> PlainText],
     [code |-> <<"2">>, text |-> QuoteLit],
     [code |-> <<"3">>, text |-> <<"e", "\n">>]}

\* every section of the documents present or absent
InitSections ==
    /\ fields \in {<< >>,
                   <<StructField(1, "Positional", "Required", FALSE, FALSE,
                                 Some(TrickyText))>>,
                   <<StructField(1, "Option", "Optional", TRUE, FALSE, Some(TrickyText)),
                     StructField(2, "Positional", "Repeating", FALSE, FALSE,
                                 Some(PlainText))>>}
    /\ \E sub \in {None, Some(SubCommandField("Required")),
                   Some(SubCommandField("Optional"))} :
          /\ subcommand = sub
          /\ COMMANDS \in IF is_some(sub)
                          THEN ListsUpTo(CommandChoices, MaxCommands) ELSE {<< >>}
    /\ ty_attrs \in [description : {Some(TrickyText)},
                     examples : ListsUpTo({QuoteLit}, 1),
                     notes : ListsUpTo({QuoteLit}, 1),
                     error_codes : ListsUpTo(ErrorCodeChoices, MaxCodes)]
    /\ InitRenders({"errors_1"})

SpecUsage == InitUsage /\ [][Next]_vars

SpecDescriptions == InitDescriptions /\ [][Next]_vars

SpecListings == InitListings /\ [][Next]_vars

SpecCollectors == InitCollectors /\ [][Next]_vars

SpecLits == InitLits /\ [][Next]_vars

SpecSections == InitSections /\ [][Next]_vars

-----------------------------------------------------------------------------
(* Reading the results back *)

RECURSIVE Ascending(_)
\* the elements of a finite set of numbers, smallest first
Ascending(S) ==
    IF S = {} THEN << >>
    ELSE LET m == CHOOSE x \in S : \A y \in S : x <= y
         IN  <<m>> \o Ascending(S \ {m})

\* the fields at the positions of S, in declaration order
FieldsAt(S) == LET idx == Ascending(S) IN [k \in 1..Len(idx) |-> fields[idx[k]]]

PositionalIndexes == {i \in 1..Len(fields) : fields[i].kind = "Positional"}

OptionIndexes == {i \in 1..Len(fields) : is_some(fields[i].long_name)}

\* the fields in the order the usage line must show them
UsageOrder ==
    FieldsAt(PositionalIndexes) \o FieldsAt(OptionIndexes)
        \o (IF is_some(subcommand) THEN <<subcommand[1]>> ELSE << >>)

\* what follows the first occurrence of chunk c in s
After(s, c) ==
    LET at == {i \in 1..Len(s) : s[i] = c}
    IN  SubSeq(s, (CHOOSE i \in at : \A j \in at : i <= j) + 1, Len(s))

\* what precedes the first occurrence of chunk c in s
Before(s, c) ==
    LET at == {i \in 1..Len(s) : s[i] = c}
    IN  SubSeq(s, 1, (CHOOSE i \in at : \A j \in at : i <= j) - 1)

\* the sections of a text help: what lies between the section separators
TextSections(text) == split(text, SECTION_SEPARATOR[1])

\* the usage line of the text help's format string, "Usage: " removed: the
\* first section, which ends at the first section separator
TextUsageLine(text) == Tail(Before(text, SECTION_SEPARATOR[1]))

\* the fragments of a usage line: its space-separated parts after the command name
UsageFragments(line) == Tail(split(line, " "))

\* the usage lines produced so far
UsageLines ==
    (IF is_some(help_tokens) THEN {TextUsageLine(help_tokens[1].format_lit)} ELSE {})
    \cup (IF is_some(help_json_tokens)
          THEN {help_json_tokens[1].usage_format_pattern} ELSE {})

\* the fragment of one field, on its own
FragmentOf(field) ==
    IF field.kind = "Positional" THEN positional_usage(<< >>, field)
    ELSE IF field.kind = "SubCommand" THEN Tail(usage_subcommand(<< >>, Some(field)))
    ELSE option_usage(<< >>, field)

\* a document without its terminating newline
Body(doc) == SubSeq(doc, 1, Len(doc) - 1)

\* the section of a text help that starts with the heading: None or Some
TextSection(text, heading) ==
    LET S == TextSections(Body(text))
        at == {i \in 1..Len(S) : S[i] # << >> /\ S[i][1] = heading}
    IN  IF at = {} THEN None ELSE Some(S[CHOOSE i \in at : \A j \in at : i <= j])

\* the two-column entries of a section: what follows each newline-and-indent
TextEntries(section) ==
    LET parts == split_on(section, <<"\n">> \o INDENT)
    IN  [k \in 1..(Len(parts) - 1) |->
            LET e == split_on(parts[k + 1], COLUMN)
            IN  [name |-> e[1], description |-> e[2]]]

\* the lines of a section of literals: what follows each newline-and-indent
TextLines(section) == Tail(split_on(section, <<"\n">> \o INDENT))

\* the text between an opening chunk and the next closing chunk
JsonValue(doc, open, close) == Before(After(doc, open), close)

\* the elements of a JSON array as the code lays it out
JsonElements(array) ==
    IF array = << >> THEN << >> ELSE split_on(array, <<",\n    ">>)

\* the {short, long, description} entries of the options array
JsonOptions(doc) ==
    LET es == JsonElements(JsonValue(doc, "\"options\": [", "],\n"))
    IN  [k \in 1..Len(es) |->
            [short |-> JsonValue(es[k], "{\"short\": \"", "\", \"long\": \""),
             long |-> JsonValue(es[k], "\", \"long\": \"", "\", \"description\": \""),
             description |-> JsonValue(es[k], "\", \"description\": \"", "\"}")]]

\* the {name, description} entries of an array of the JSON help
JsonEntries(doc, open, close) ==
    LET es == JsonElements(JsonValue(doc, open, close))
    IN  [k \in 1..Len(es) |->
            [name |-> JsonValue(es[k], "{\"name\": \"", "\", \"description\": \""),
             description |-> JsonValue(es[k], "\", \"description\": \"", "\"}")]]

JsonPositional(doc) == JsonEntries(doc, "\"positional\": [", "],\n")

JsonErrorCodes(doc) == JsonEntries(doc, "\"error_codes\": [", "],\n")

JsonSubcommands(doc) == JsonEntries(doc, "\"subcommands\": [", "]\n")

\* a string value of the JSON help
JsonString(doc, key) == JsonValue(doc, key, "\",\n")

\* an option entry's name column read back: "-s, --long" or "--long"
TextOptionEntry(e) ==
    IF Len(e.name) >= 3 /\ e.name[1] = "-" /\ e.name[3] = ", "
    THEN [short |-> <<e.name[2]>>, long |-> SubSeq(e.name, 4, Len(e.name)),
          description |-> e.description]
    ELSE [short |-> << >>, long |-> e.name, description |-> e.description]

\* the {short, long, description} entries of the Options section of a text help
TextOptions(text) ==
    LET es == TextEntries(TextSection(text, "Options:")[1])
    IN  [k \in 1..Len(es) |-> TextOptionEntry(es[k])]

\* the {name, description} entries of the Positional Arguments section, if any
TextPositional(text) ==
    LET section == TextSection(text, "Positional Arguments:")
    IN  IF is_some(section) THEN TextEntries(section[1]) ELSE << >>

\* the text help, once the generated code has produced it
TextDone == is_some(help_string) /\ help_string[1].ok

\* the JSON help, once the generated code has produced it
JsonDone == is_some(json_help_string) /\ json_help_string[1].ok

TextDoc == help_string[1].out

JsonDoc == json_help_string[1].out

\* the name column of an option entry of the text help
TextOptionName(short, long) ==
    (IF short # << >> THEN <<"-">> \o short \o <<", ">> ELSE << >>) \o long

-----------------------------------------------------------------------------
(* C1 *)

\* C1: the usage line holds, after the command name, one fragment per
\* Positional field in declaration order, then one fragment per field with a
\* long name in declaration order, then the sub-command fragment if there is
\* a sub-command field; so no option fragment precedes a positional one.
C1_UsageOrder ==
    \A line \in UsageLines :
        /\ split(line, " ")[1] = command_name_token
        /\ UsageFragments(line) = [k \in 1..Len(UsageOrder) |-> FragmentOf(UsageOrder[k])]

\* both renders done on a schema that declares an option before a positional
\* and has a sub-command
C1_Witness ==
    /\ is_some(help_tokens)
    /\ is_some(help_json_tokens)
    /\ is_some(subcommand)
    /\ \E i, j \in 1..Len(fields) :
          i < j /\ is_some(fields[i].long_name) /\ fields[j].kind = "Positional"

-----------------------------------------------------------------------------
(* C2 *)

\* the fragment without the trailing " [<args>]" of the sub-command fragment
Core(field, frag) ==
    IF field.kind = "SubCommand" THEN SubSeq(frag, 1, Len(frag) - 1) ELSE frag

Bracketed(core) == core[1] = "[" /\ core[Len(core)] = "]"

Unbracketed(core) == core[1] # "[" /\ core[Len(core)] # "]"

\* the placeholder ends in "..." right before its closing ">"
EllipsisBeforeClose(core) ==
    \E i \in 1..(Len(core) - 1) :
        /\ core[i] = "..."
        /\ core[i + 1] = ">"
        /\ \A j \in (i + 2)..Len(core) : core[j] # ">"

NoEllipsis(core) == \A i \in 1..Len(core) : core[i] # "..."

-----------------------------------------------------------------------------
(* C3 *)

\* the declared options, in declaration order
DeclaredOptions == FieldsAt(OptionIndexes)

\* the last two of the entries es are --help and --help-json, without a
\* short name, and the entries before them are the declared options in order
EndsWithHelpEntries(es) ==
    LET n == Len(es)
    IN  /\ n = Len(DeclaredOptions) + 2
        /\ es[n - 1] = [short |-> << >>, long |-> HELP_FLAG,
                        description |-> HELP_DESCRIPTION]
        /\ es[n] = [short |-> << >>, long |-> HELP_JSON_FLAG,
                    description |-> HELP_JSON_DESCRIPTION]
        /\ \A k \in 1..(n - 2) :
              /\ es[k].long = DeclaredOptions[k].long_name[1]
              /\ es[k].short = DeclaredOptions[k].attrs.short

\* C3: in the text help and in the JSON help the options listing ends with
\* exactly two synthetic entries, --help ("display usage information") then
\* --help-json ("display usage information encoded in JSON"), neither with a
\* short name, and all declared options precede them in declaration order.
C3_HelpEntriesLast ==
    /\ TextDone =>
          /\ is_some(TextSection(TextDoc, "Options:"))
          /\ EndsWithHelpEntries(TextOptions(TextDoc))
    /\ JsonDone => EndsWithHelpEntries(JsonOptions(JsonDoc))

\* both helps produced for a schema with two options, the first with a short name
C3_Witness ==
    /\ TextDone
    /\ JsonDone
    /\ Len(DeclaredOptions) = 2
    /\ is_some(DeclaredOptions[1].attrs.short)

-----------------------------------------------------------------------------
(* C4 *)

\* the entities that require documentation: the command type, and every field
\* rendered as a positional or as an option
DocumentedEntities ==
    {[span |-> call_site, kind |-> "type", description |-> ty_attrs.description]}
    \cup {[span |-> fields[i].name, kind |-> "field",
           description |-> fields[i].attrs.description] :
          i \in PositionalIndexes \cup OptionIndexes}

\* C4: after one render pass, for every entity that requires documentation a
\* missing-description diagnostic has been recorded if and only if the
\* entity has no description, so k entities without one yield k diagnostics.
C4_DiagnosticIffMissing ==
    \A c \in 1..Len(calls) :
        LET rec == calls[c].recorded
        IN  /\ \A e \in DocumentedEntities :
                  (\E j \in 1..Len(rec) : rec[j] = [span |-> e.span, kind |-> e.kind])
                      <=> is_none(e.description)
            /\ Len(rec) = Cardinality({e \in DocumentedEntities : is_none(e.description)})

-----------------------------------------------------------------------------
(* C9 *)

\* C9: each call of help or help_json has a collector of its own, so no two
\* renders record into the same collector and no collector holds the
\* diagnostic for one missing description more than once.
C9_CollectorPerRender ==
    /\ \A i, j \in 1..Len(calls) : i # j => calls[i].errors # calls[j].errors
    /\ \A c \in DOMAIN errors :
          \A i, j \in 1..Len(errors[c]) : i # j => errors[c][i] # errors[c][j]

-----------------------------------------------------------------------------
(* C10 *)

\* C10: the option entries (short name, long name, description) of the text
\* help's Options section are those of the JSON options array, the entries of
\* Positional Arguments are those of the JSON positional array (the JSON
\* carrying each description escaped), and the JSON usage value is the text
\* usage line without its leading "Usage: ".
C10_TextJsonAgree ==
    (TextDone /\ JsonDone) =>
        LET T  == TextOptions(TextDoc)
            J  == JsonOptions(JsonDoc)
            TP == TextPositional(TextDoc)
            JP == JsonPositional(JsonDoc)
        IN  /\ Len(T) = Len(J)
            /\ \A k \in 1..Len(T) :
                  /\ T[k].short = J[k].short
                  /\ T[k].long = J[k].long
                  /\ escape_json(T[k].description) = J[k].description
            /\ Len(TP) = Len(JP)
            /\ \A k \in 1..Len(TP) :
                  /\ TP[k].name = JP[k].name
                  /\ escape_json(TP[k].description) = JP[k].description
            /\ JsonString(JsonDoc, "\"usage\": \"") = Tail(TextSections(TextDoc)[1])

-----------------------------------------------------------------------------
(* C5 *)

\* the trimmed description of an entity, "" when it has none
TrimmedDescription(desc) == IF is_some(desc) THEN trim(desc[1]) ELSE << >>

\* C5: every string value of the JSON document (the command description, each
\* option and positional description, the examples, the notes, each
\* error-code text, each sub-command name and description) is the source
\* text escaped exactly once.
C5_EscapedOnce ==
    JsonDone =>
        LET options == JsonOptions(JsonDoc)
            positional == JsonPositional(JsonDoc)
            codes == JsonErrorCodes(JsonDoc)
            commands == JsonSubcommands(JsonDoc)
            declared == FieldsAt(OptionIndexes)
            positionals == FieldsAt(PositionalIndexes)
        IN  /\ JsonString(JsonDoc, "\"description\": \"")
                  = escape_json(TrimmedDescription(ty_attrs.description))
            /\ \A k \in 1..Len(declared) :
                  options[k].description
                      = escape_json(TrimmedDescription(declared[k].attrs.description))
            /\ \A k \in 1..Len(positionals) :
                  positional[k].description
                      = escape_json(TrimmedDescription(positionals[k].attrs.description))
            /\ JsonString(JsonDoc, "\"examples\": \"")
                  = escape_json(Concat(ty_attrs.examples))
            /\ JsonString(JsonDoc, "\"notes\": \"") = escape_json(Concat(ty_attrs.notes))
            /\ \A k \in 1..Len(ty_attrs.error_codes) :
                  codes[k].description = escape_json(ty_attrs.error_codes[k].text)
            /\ \A k \in 1..Len(COMMANDS) :
                  /\ commands[k].name = escape_json(COMMANDS[k].name)
                  /\ commands[k].description = escape_json(COMMANDS[k].description)

-----------------------------------------------------------------------------
(* C6 *)

\* the headings the text help must show after the usage line and the
\* description, in order
ExpectedHeadings ==
    (IF PositionalIndexes # {} THEN <<"Positional Arguments:">> ELSE << >>)
    \o <<"Options:">>
    \o (IF is_some(subcommand) THEN <<"Commands:">> ELSE << >>)
    \o (IF ty_attrs.examples # << >> THEN <<"Examples:">> ELSE << >>)
    \o (IF ty_attrs.notes # << >> THEN <<"Notes:">> ELSE << >>)
    \o (IF ty_attrs.error_codes # << >> THEN <<"Error codes:">> ELSE << >>)

AllHeadings ==
    {"Positional Arguments:", "Options:", "Commands:", "Examples:", "Notes:",
     "Error codes:"}

\* the text help is the usage line, the description and then exactly the
\* expected sections, each two separated by one section separator, and one
\* newline pushed after the last section
SectionsInOrder ==
    LET S == TextSections(Body(TextDoc))
    IN  /\ TextDoc[Len(TextDoc)] = "\n"
        /\ Len(S) = 2 + Len(ExpectedHeadings)
        /\ S[1][1] = "Usage: "
        /\ S[2] = TrimmedDescription(ty_attrs.description)
        /\ \A k \in 1..Len(ExpectedHeadings) : S[2 + k][1] = ExpectedHeadings[k]
        /\ \A h \in AllHeadings :
              Cardinality({i \in 1..Len(TextDoc) : TextDoc[i] = h})
                  = Cardinality({k \in 1..Len(ExpectedHeadings) : ExpectedHeadings[k] = h})

-----------------------------------------------------------------------------
(* C7 *)

\* the examples (notes) literals as the JSON help must show them: the
\* literals concatenated in order without separator and escaped; if that
\* string contains {command_name} the whole string is expanded as a format
\* string, otherwise it is left as it is
ExpectedJsonLits(lits) ==
    LET pattern == escape_json(Concat(lits))
    IN  IF contains(pattern, command_name_token)
        THEN format(pattern, {command_name_arg(cmd_name)}).out
        ELSE pattern

\* C7 as amended: the examples value and the notes value of the JSON help
\* are the literals concatenated in declaration order with no separator and
\* escaped once; the whole concatenation is format-expanded (token replaced
\* by the space-joined command path, doubled braces collapsed) exactly when
\* it contains the token, and is inserted verbatim otherwise.
C7_LitsWholeString ==
    JsonDone =>
        /\ JsonString(JsonDoc, "\"examples\": \"") = ExpectedJsonLits(ty_attrs.examples)
        /\ JsonString(JsonDoc, "\"notes\": \"") = ExpectedJsonLits(ty_attrs.notes)

\* one literal as the claim has it: expanded if it contains the token,
\* verbatim otherwise
PerLiteral(lit) ==
    IF contains(lit, command_name_token)
    THEN format(escape_json(lit), {command_name_arg(cmd_name)}).out
    ELSE escape_json(lit)

\* C7 as stated: each literal is expanded if it contains the token and
\* inserted verbatim if it does not, whatever the other literals hold.
C7_LitsPerLiteral ==
    JsonDone =>
        /\ JsonString(JsonDoc, "\"examples\": \"")
              = Concat([k \in 1..Len(ty_attrs.examples) |-> PerLiteral(ty_attrs.examples[k])])
        /\ JsonString(JsonDoc, "\"notes\": \"")
              = Concat([k \in 1..Len(ty_attrs.notes) |-> PerLiteral(ty_attrs.notes[k])])

\* the JSON help produced for examples where one literal names the command
\* and another holds doubled braces, and notes with braces but no token
C7_Witness ==
    /\ JsonDone
    /\ ty_attrs.examples = <<TokenLit, BraceLit>>
    /\ ty_attrs.notes = <<BraceLit, QuoteLit>>

-----------------------------------------------------------------------------
(* C8 *)

\* the variants the sub-command type reports, as {name, description} entries
ReportedCommands ==
    [k \in 1..Len(COMMANDS) |->
        [name |-> COMMANDS[k].name, description |-> COMMANDS[k].description]]

\* C8: with a sub-command field the text help has a Commands: section and
\* the JSON subcommands array holds exactly the reported variants in order;
\* without one the text help has no Commands: heading and the JSON
\* subcommands value is [].
C8_SubcommandListing ==
    /\ TextDone =>
          LET section == TextSection(TextDoc, "Commands:")
          IN  /\ is_some(section) <=> is_some(subcommand)
              /\ (\E i \in 1..Len(TextDoc) : TextDoc[i] = "Commands:") <=> is_some(subcommand)
    /\ JsonDone =>
          /\ is_some(subcommand) => JsonSubcommands(JsonDoc) = ReportedCommands
          /\ is_none(subcommand) =>
                JsonValue(JsonDoc, "\"subcommands\": [", "]\n") = << >>

\* both helps produced for a sub-command type that reports two variants
C8_Witness ==
    /\ TextDone
    /\ JsonDone
    /\ is_some(subcommand)
    /\ Len(COMMANDS) = 2
    /\ COMMANDS[1] # COMMANDS[2]

====
